---- MODULE Spec2Model ----
(***************************************************************************)
(* Job orchestration of the Unweave backend (backend/main.py): the job     *)
(* registry, the runner thread run_separation with its stderr reader       *)
(* thread, the worker subprocess, the /cancel handler and the retention    *)
(* reaper.                                                                 *)
(*                                                                         *)
(* Text that the program parses (worker output lines, file names) is a     *)
(* sequence of one-character strings; text that the program produces (job  *)
(* messages, stem labels and URLs) is a TLA+ string.  Python's None is the *)
(* empty tuple and a present value v is <<v>>.                             *)
(*                                                                         *)
(* Environment assumptions: os.listdir on an existing directory succeeds;   *)
(* shutil.rmtree succeeds except in SpecFaulty and in ReaperCycleFails; the *)
(* compute device is the CPU, so release_gpu_memory has no effect.         *)
(*                                                                         *)
(* Specifications: Spec (everything), SpecJob (one retention window, the   *)
(* clock standing still), SpecFaulty (SpecJob with failing deletions),     *)
(* SpecLife and SpecReaperFair (clock and reaper), SpecParse (the reader   *)
(* and the parser on lines of many shapes), SpecPipes (bounded pipes),     *)
(* SpecLocks (the lock operations of the threads, interleaved).            *)
(***************************************************************************)
EXTENDS Integers, Sequences, FiniteSets, TLC

VARIABLES
    now,                \* time.time(), in ticks
    jobs,               \* the registry `jobs`: job id -> record
    active_processes,   \* keys of `active_processes` (one Popen handle per job)
    processes_lock,     \* holder of `processes_lock`, or "free"
    temp_dirs,          \* job ids whose TEMP_DIR/<job_id> exists
    out_dirs,           \* OUTPUT_DIR/<job_id> -> [files, mtime], for existing directories
    proc,               \* the worker subprocess of each job
    runner,             \* the run_separation thread of each job
    reader,             \* the read_stderr thread of each job
    http,               \* the request handler running on the event loop
    last_cancel,        \* history: the latest call of cancel_job
    accepted,           \* history: job id -> statuses read by the calls of cancel_job
                        \*          that went on to cancel it
    returned_ok,        \* history: job id -> statuses read by the calls of cancel_job
                        \*          that have returned 200
    reaper,             \* position of background_cleanup_thread
    jobs_lock,          \* holder of `jobs_lock`, or "free"
    lockstep            \* the lock operations each thread is going through

vars == <<now, jobs, active_processes, processes_lock, temp_dirs, out_dirs,
          proc, runner, reader, http, last_cancel, accepted, returned_ok, reaper,
          jobs_lock, lockstep>>

----------------------------------------------------------------------------
(* Bounds of the model *)

MaxLines == 1       \* lines a worker writes to stderr
MaxTime == 3        \* last clock tick
MaxParsed == 2      \* lines waiting in the stderr pipe when the parser is exercised
PipeCapacity == 2   \* lines a pipe of the worker holds before a write blocks

JobIds == {"j1"}

(* Configuration *)
RETENTION_SECONDS == 1
DEVICE_TYPE == "cpu"

None == <<>>
Some(v) == <<v>>

----------------------------------------------------------------------------
(* Python string operations on sequences of characters *)

Digits == {"0", "1", "2", "3", "4", "5", "6", "7", "8", "9"}

DigitVal(c) ==
    CASE c = "0" -> 0 [] c = "1" -> 1 [] c = "2" -> 2 [] c = "3" -> 3
      [] c = "4" -> 4 [] c = "5" -> 5 [] c = "6" -> 6 [] c = "7" -> 7
      [] c = "8" -> 8 [] c = "9" -> 9

\* int(s) for a string of decimal digits
RECURSIVE ToInt(_)
ToInt(s) ==
    IF s = <<>> THEN 0
    ELSE 10 * ToInt(SubSeq(s, 1, Len(s) - 1)) + DigitVal(s[Len(s)])

Min(S) == CHOOSE x \in S : \A y \in S : x <= y

\* `p in s`
Contains(s, p) ==
    \E i \in 1..(Len(s) - Len(p) + 1) : SubSeq(s, i, i + Len(p) - 1) = p

\* s.startswith(p)
StartsWith(s, p) == Len(s) >= Len(p) /\ SubSeq(s, 1, Len(p)) = p

\* s.endswith(p)
EndsWith(s, p) == Len(s) >= Len(p) /\ SubSeq(s, Len(s) - Len(p) + 1, Len(s)) = p

Whitespace == {" ", "\t", "\n", "\r"}

\* s.strip()
RECURSIVE Strip(_)
Strip(s) ==
    IF s = <<>> THEN s
    ELSE IF Head(s) \in Whitespace THEN Strip(Tail(s))
    ELSE IF s[Len(s)] \in Whitespace THEN Strip(SubSeq(s, 1, Len(s) - 1))
    ELSE s

\* s.split(sep, 1)[1] when sep occurs in s
AfterFirst(s, sep) ==
    LET i == Min({k \in 1..(Len(s) - Len(sep) + 1) :
                    SubSeq(s, k, k + Len(sep) - 1) = sep})
    IN  SubSeq(s, i + Len(sep), Len(s))

\* s.split(",")
RECURSIVE SplitComma(_)
SplitComma(s) ==
    IF \E i \in 1..Len(s) : s[i] = ","
    THEN LET i == Min({k \in 1..Len(s) : s[k] = ","})
         IN  <<SubSeq(s, 1, i - 1)>> \o SplitComma(SubSeq(s, i + 1, Len(s)))
    ELSE <<s>>

\* os.path.basename(p)
Basename(p) ==
    LET slashes == {k \in 1..Len(p) : p[k] = "/"}
    IN  IF slashes = {} THEN p
        ELSE SubSeq(p, (CHOOSE k \in slashes : \A m \in slashes : m <= k) + 1, Len(p))

UpperToLower ==
    ("A" :> "a") @@ ("B" :> "b") @@ ("C" :> "c") @@ ("D" :> "d") @@ ("E" :> "e") @@
    ("F" :> "f") @@ ("G" :> "g") @@ ("H" :> "h") @@ ("I" :> "i") @@ ("J" :> "j") @@
    ("K" :> "k") @@ ("L" :> "l") @@ ("M" :> "m") @@ ("N" :> "n") @@ ("O" :> "o") @@
    ("P" :> "p") @@ ("Q" :> "q") @@ ("R" :> "r") @@ ("S" :> "s") @@ ("T" :> "t") @@
    ("U" :> "u") @@ ("V" :> "v") @@ ("W" :> "w") @@ ("X" :> "x") @@ ("Y" :> "y") @@
    ("Z" :> "z")

\* s.lower()
Lower(s) ==
    [i \in 1..Len(s) |-> IF s[i] \in DOMAIN UpperToLower THEN UpperToLower[s[i]] ELSE s[i]]

\* the characters of s as one string
RECURSIVE Join(_)
Join(s) == IF s = <<>> THEN "" ELSE Head(s) \o Join(Tail(s))

----------------------------------------------------------------------------
(* parse_tqdm_line *)

\* a search that returns the rightmost match
ProgressMatch_Mutant(line) ==
    LET ends == {k \in 1..Len(line) :
                   /\ line[k] \in Digits
                   /\ k + 2 <= Len(line)
                   /\ line[k + 1] = "%"
                   /\ line[k + 2] = "|"}
    IN  IF ends = {} THEN None
        ELSE LET k == CHOOSE e \in ends : \A m \in ends : m <= e
                 i == CHOOSE b \in 1..k :
                        /\ \A m \in b..k : line[m] \in Digits
                        /\ (b = 1 \/ line[b - 1] \notin Digits)
             IN  Some(SubSeq(line, i, k))

\* progress_pattern.search(line) for r'(\d+)%\|': start and end of group 1 of
\* the leftmost match, the digits taken greedily
ProgressMatch(line) ==
    LET starts == {i \in 1..Len(line) :
                     /\ line[i] \in Digits
                     /\ \E k \in i..Len(line) :
                          /\ \A m \in i..k : line[m] \in Digits
                          /\ k + 2 <= Len(line)
                          /\ line[k + 1] = "%"
                          /\ line[k + 2] = "|"}
    IN  IF starts = {} THEN None
        ELSE LET i == Min(starts)
                 k == CHOOSE e \in i..Len(line) :
                        /\ \A m \in i..e : line[m] \in Digits
                        /\ e + 2 <= Len(line)
                        /\ line[e + 1] = "%"
                        /\ line[e + 2] = "|"
             IN  Some(SubSeq(line, i, k))

\* the end of the run of digits that starts at i
DigitRunEnd(line, i) ==
    CHOOSE e \in i..Len(line) :
        /\ \A m \in i..e : line[m] \in Digits
        /\ (e = Len(line) \/ line[e + 1] \notin Digits)

\* eta_pattern.search(line) for r'<(\d+):(\d+)': groups 1 and 2 of the leftmost match
EtaMatch(line) ==
    LET ok(i) == /\ line[i] = "<"
                 /\ i + 1 <= Len(line)
                 /\ line[i + 1] \in Digits
                 /\ LET e == DigitRunEnd(line, i + 1)
                    IN  /\ e + 2 <= Len(line)
                        /\ line[e + 1] = ":"
                        /\ line[e + 2] \in Digits
        starts == {i \in 1..Len(line) : ok(i)}
    IN  IF starts = {} THEN None
        ELSE LET i == Min(starts)
                 e == DigitRunEnd(line, i + 1)
                 f == DigitRunEnd(line, e + 2)
             IN  Some(<<SubSeq(line, i + 1, e), SubSeq(line, e + 2, f)>>)

\* the keyword arguments parse_tqdm_line passes to update_job, or None when
\* the line carries no progress token
TqdmUpdate(line, is_downloading) ==
    LET progress_match == ProgressMatch(line)
    IN  IF progress_match = None THEN None
        ELSE LET pct == ToInt(progress_match[1])
                 eta_match == EtaMatch(line)
                 eta_seconds ==
                     IF eta_match = None THEN None
                     ELSE Some(ToInt(eta_match[1][1]) * 60 + ToInt(eta_match[1][2]))
                 msg == IF is_downloading
                        THEN "Downloading model... " \o ToString(pct) \o "%"
                        ELSE "Separating stems... " \o ToString(pct) \o "%"
             IN  Some([progress |-> pct, eta_seconds |-> eta_seconds, message |-> msg])

----------------------------------------------------------------------------
(* The registry *)

\* update_job on the registry value: merge kwargs into the record, if present
UpdateJob(registry, job_id, kwargs) ==
    IF job_id \in DOMAIN registry
    THEN [registry EXCEPT ![job_id] = kwargs @@ @]
    ELSE registry

\* get_job: a copy of the record, or None
GetJob(registry, job_id) ==
    IF job_id \in DOMAIN registry THEN Some(registry[job_id]) ELSE None

\* the record separate_audio stores for a new job
NewJob(started_at) ==
    [status |-> "uploading", progress |-> 0, eta_seconds |-> None,
     message |-> "Upload received, starting separation...", stems |-> None,
     started_at |-> started_at, processing_time |-> None, device_used |-> DEVICE_TYPE]

\* a mapping without one key
Without(f, k) == [x \in DOMAIN f \ {k} |-> f[x]]

\* cleanup_files on the set of existing temp directories / the output directories
CleanupTemp(dirs, job_id) == dirs \ {job_id}
CleanupOut(dirs, job_id) == Without(dirs, job_id)

----------------------------------------------------------------------------
(* Stem classification in run_separation *)

EmptyDict == [k \in {} |-> ""]

\* stem_keywords, in insertion order
stem_keywords ==
    << <<(<<"v","o","c","a","l","s">>), "Vocals">>,
       <<(<<"d","r","u","m","s">>), "Drums">>,
       <<(<<"b","a","s","s">>), "Bass">>,
       <<(<<"g","u","i","t","a","r">>), "Guitar">>,
       <<(<<"p","i","a","n","o">>), "Piano">>,
       <<(<<"o","t","h","e","r">>), "Other">> >>

\* the label of the first keyword contained in stem_lower, or None
KeywordLabel(stem_lower) ==
    LET hits == {i \in 1..Len(stem_keywords) : Contains(stem_lower, stem_keywords[i][1])}
    IN  IF hits = {} THEN None ELSE Some(stem_keywords[Min(hits)][2])

StemUrl(job_id, name) == "/stems/" \o job_id \o "/" \o Join(name)

\* the loop over output_files: a file without a keyword is skipped
RECURSIVE StemsFromFiles(_, _, _)
StemsFromFiles(output_files, job_id, stems) ==
    IF output_files = <<>> THEN stems
    ELSE LET stem_basename == Basename(Head(output_files))
             label == KeywordLabel(Lower(stem_basename))
         IN  StemsFromFiles(Tail(output_files), job_id,
                IF label = None THEN stems
                ELSE (label[1] :> StemUrl(job_id, stem_basename)) @@ stems)

MP3 == <<".", "m", "p", "3">>

\* a scan that files every unmatched name under Other
ScanKey_Mutant(f) ==
    LET label == KeywordLabel(Lower(f))
    IN  IF label = None THEN "Other" ELSE label[1]

\* the key the fallback scan gives a file: keyword label, else the raw file name
ScanKey(f) ==
    LET label == KeywordLabel(Lower(f))
    IN  IF label = None THEN Join(f) ELSE label[1]

\* the fallback loop over os.listdir(job_out_dir), in the order listed
RECURSIVE StemsFromScan(_, _, _)
StemsFromScan(listing, job_id, stems) ==
    IF listing = <<>> THEN stems
    ELSE LET f == Head(listing)
         IN  StemsFromScan(Tail(listing), job_id,
                IF EndsWith(f, MP3)
                THEN (ScanKey(f) :> StemUrl(job_id, f)) @@ stems
                ELSE stems)

DONE_MARK == <<"D", "O", "N", "E", ":">>
ERROR_MARK == <<"E", "R", "R", "O", "R", ":">>

\* output_files parsed from the first DONE: line of stdout_output
OutputFiles(stdout_output) ==
    LET hits == {i \in 1..Len(stdout_output) : StartsWith(stdout_output[i], DONE_MARK)}
    IN  IF hits = {} THEN <<>>
        ELSE LET files_str == AfterFirst(stdout_output[Min(hits)], DONE_MARK)
             IN  IF files_str = <<>> THEN <<>> ELSE SplitComma(files_str)

\* error_msg taken from the first ERROR: line of stdout_output
ErrorMsg(stdout_output) ==
    LET hits == {i \in 1..Len(stdout_output) : StartsWith(stdout_output[i], ERROR_MARK)}
    IN  IF hits = {} THEN "Unknown error occurred"
        ELSE Join(AfterFirst(stdout_output[Min(hits)], ERROR_MARK))

\* an exception that carries the worker's text alone
WorkerExitedMessage_Mutant(returncode, error_msg) == error_msg

\* str(e) of the exception raised on a non-zero exit code
WorkerExitedMessage(returncode, error_msg) ==
    "Worker exited with code " \o ToString(returncode) \o ": " \o error_msg

\* all orders in which os.listdir may return a set of names
RECURSIVE Orderings(_)
Orderings(S) ==
    IF S = {} THEN {<<>>}
    ELSE UNION {{<<x>> \o rest : rest \in Orderings(S \ {x})} : x \in S}

----------------------------------------------------------------------------
(* What a worker may write *)

\* lines on the diagnostic channel (stderr), without their terminator
LINE_50 == <<"5", "0", "%", "|", "<", "1", ":", "0", "0">>
LINE_150 == <<"1", "5", "0", "%", "|">>
LINE_DOWNLOAD == <<"D", "o", "w", "n", "l", "o", "a", "d", "i", "n", "g", " ",
                   "1", "0", "0", "%", "|">>

StderrLines == {LINE_50, LINE_150, LINE_DOWNLOAD}

\* file names
F_VOCALS == <<"V", "o", "c", "a", "l", "s", ".", "m", "p", "3">>
F_VOCALS2 == <<"v", "o", "c", "a", "l", "s", "2", ".", "m", "p", "3">>
F_DRUMS == <<"d", "r", "u", "m", "s", ".", "m", "p", "3">>
F_MIX == <<"m", "i", "x", ".", "m", "p", "3">>
F_NOTES == <<"n", ".", "t", "x", "t">>

\* how a worker run may end by itself: exit code, the lines printed on the
\* primary channel (stdout) and the files written to the output directory
WorkerOutcomes ==
    { [returncode |-> 0,
       stdout |-> <<DONE_MARK \o F_VOCALS \o <<",", "o", "/">> \o F_DRUMS \o <<"\n">>>>,
       files |-> {F_VOCALS, F_DRUMS}],
      [returncode |-> 0,
       stdout |-> <<DONE_MARK \o F_MIX \o <<",">> \o F_VOCALS \o <<"\n">>>>,
       files |-> {F_MIX, F_VOCALS}],
      [returncode |-> 0,
       stdout |-> <<DONE_MARK \o <<"\n">>>>,
       files |-> {F_VOCALS, F_VOCALS2, F_MIX, F_NOTES}],
      [returncode |-> 0,
       stdout |-> <<>>,
       files |-> {}],
      [returncode |-> 1,
       stdout |-> <<ERROR_MARK \o <<"m", "o", "d", "e", "l", " ", "n", "o", "t", " ",
                                    "f", "o", "u", "n", "d", "\n">>>>,
       files |-> {}],
      [returncode |-> 1,
       stdout |-> <<>>,
       files |-> {}] }

\* exit codes of a process ended by SIGTERM / SIGKILL
RC_SIGTERM == -15
RC_SIGKILL == -9

----------------------------------------------------------------------------
(* Initial state: the server has started, no job has been submitted *)

NoProc == [state |-> "none", returncode |-> None, stderr |-> <<>>, stdout |-> <<>>,
           written |-> 0, signals |-> <<>>]

NoRunner == [pc |-> "none", start_time |-> 0, stdout_output |-> <<>>,
             output_files |-> <<>>, stems |-> EmptyDict, listing |-> None,
             elapsed |-> 0, exc |-> ""]

NoReader == [pc |-> "none", is_downloading |-> FALSE]

Idle == [pc |-> "idle", job_id |-> ""]

\* a call of cancel_job: the job, the status read ("none": no record), the
\* response ("pending" until it returns), whether the process was found in
\* active_processes, whether wait() timed out, and whether an earlier call for
\* the job had returned 200
CallEntry(j, read, result, after_ok) ==
    [job_id |-> j, read |-> read, result |-> result, tracked |-> FALSE,
     timed_out |-> FALSE, after_ok |-> after_ok]

NoCall == CallEntry("", "none", "none", FALSE)

\* the threads that take the two locks: a run_separation thread, its
\* read_stderr thread, the event loop running the request handlers, and
\* background_cleanup_thread
Threads == {"runner", "reader", "event_loop", "reaper"}

\* no thread is inside a function that takes a lock
NoLockstep == [t \in Threads |-> [ops |-> <<>>, at |-> 1]]

Init ==
    /\ now = 1
    /\ jobs = EmptyDict
    /\ active_processes = {}
    /\ processes_lock = "free"
    /\ temp_dirs = {}
    /\ out_dirs = EmptyDict
    /\ proc = [j \in JobIds |-> NoProc]
    /\ runner = [j \in JobIds |-> NoRunner]
    /\ reader = [j \in JobIds |-> NoReader]
    /\ http = Idle
    /\ last_cancel = NoCall
    /\ accepted = [j \in JobIds |-> {}]
    /\ returned_ok = [j \in JobIds |-> {}]
    /\ reaper = "cycle"
    /\ jobs_lock = "free"
    /\ lockstep = NoLockstep

\* the clock advances
Tick ==
    /\ now < MaxTime
    /\ now' = now + 1
    /\ UNCHANGED <<jobs, active_processes, processes_lock, temp_dirs, out_dirs,
                   proc, runner, reader, http, last_cancel, accepted, returned_ok, reaper,
                   jobs_lock, lockstep>>

----------------------------------------------------------------------------
(* POST /separate *)

\* separate_audio for an accepted upload: directories, registry entry, runner thread
SeparateAudio(j) ==
    /\ http.pc = "idle"
    /\ runner[j].pc = "none"
    /\ temp_dirs' = temp_dirs \cup {j}
    /\ out_dirs' = (j :> [files |-> {}, mtime |-> now]) @@ out_dirs
    /\ jobs' = (j :> NewJob(now)) @@ jobs
    /\ runner' = [runner EXCEPT ![j].pc = "start"]
    /\ UNCHANGED <<now, active_processes, processes_lock, proc, reader, http,
                   last_cancel, accepted, returned_ok, reaper,
                   jobs_lock, lockstep>>

----------------------------------------------------------------------------
(* The worker subprocess *)

\* the worker writes one line to stderr
WorkerWrite(j, line) ==
    /\ proc[j].state = "running"
    /\ proc[j].written < MaxLines
    /\ proc' = [proc EXCEPT ![j].stderr = Append(@, line), ![j].written = @ + 1]
    /\ UNCHANGED <<now, jobs, active_processes, processes_lock, temp_dirs, out_dirs,
                   runner, reader, http, last_cancel, accepted, returned_ok, reaper,
                   jobs_lock, lockstep>>

\* the worker ends by itself: run_worker returns (exit code 0, its files
\* written to --out_dir) or raises (ERROR: line, sys.exit(1))
WorkerExit(j, outcome) ==
    /\ proc[j].state = "running"
    /\ outcome.returncode = 0 => j \in DOMAIN out_dirs
    /\ proc' = [proc EXCEPT ![j].state = "exited",
                            ![j].returncode = Some(outcome.returncode),
                            ![j].stdout = outcome.stdout]
    /\ out_dirs' = IF outcome.files = {} THEN out_dirs
                   ELSE [out_dirs EXCEPT ![j] = [files |-> @.files \cup outcome.files,
                                                 mtime |-> now]]
    /\ UNCHANGED <<now, jobs, active_processes, processes_lock, temp_dirs,
                   runner, reader, http, last_cancel, accepted, returned_ok, reaper,
                   jobs_lock, lockstep>>

\* the worker is ended by a signal cancel_job sent
WorkerSignalled(j) ==
    /\ proc[j].state = "running"
    /\ proc[j].signals # <<>>
    /\ proc' = [proc EXCEPT ![j].state = "exited",
                            ![j].returncode =
                                Some(IF \E i \in 1..Len(proc[j].signals) :
                                          proc[j].signals[i] = "kill"
                                     THEN RC_SIGKILL ELSE RC_SIGTERM)]
    /\ UNCHANGED <<now, jobs, active_processes, processes_lock, temp_dirs, out_dirs,
                   runner, reader, http, last_cancel, accepted, returned_ok, reaper,
                   jobs_lock, lockstep>>

----------------------------------------------------------------------------
(* run_separation: the runner thread of job j *)

POPEN_ERROR == "[Errno 12] Cannot allocate memory"
LISTDIR_ERROR == "[Errno 2] No such file or directory"

\* line 233: mark the job as processing, whatever its status is
RunnerStart(j) ==
    /\ runner[j].pc = "start"
    /\ jobs' = UpdateJob(jobs, j, [status |-> "processing", progress |-> 0,
                                   message |-> "Initializing worker..."])
    /\ runner' = [runner EXCEPT ![j].pc = "popen", ![j].start_time = now]
    /\ UNCHANGED <<now, active_processes, processes_lock, temp_dirs, out_dirs,
                   proc, reader, http, last_cancel, accepted, returned_ok, reaper,
                   jobs_lock, lockstep>>

\* lines 247-263: subprocess.Popen starts the worker
RunnerPopen(j) ==
    /\ runner[j].pc = "popen"
    /\ proc' = [proc EXCEPT ![j].state = "running"]
    /\ runner' = [runner EXCEPT ![j].pc = "register"]
    /\ UNCHANGED <<now, jobs, active_processes, processes_lock, temp_dirs, out_dirs,
                   reader, http, last_cancel, accepted, returned_ok, reaper,
                   jobs_lock, lockstep>>

\* lines 247-263: subprocess.Popen raises OSError
RunnerPopenFails(j) ==
    /\ runner[j].pc = "popen"
    /\ runner' = [runner EXCEPT ![j].pc = "except_temp", ![j].exc = POPEN_ERROR]
    /\ UNCHANGED <<now, jobs, active_processes, processes_lock, temp_dirs, out_dirs,
                   proc, reader, http, last_cancel, accepted, returned_ok, reaper,
                   jobs_lock, lockstep>>

\* lines 265-301: track the process, start the stderr reader thread
RunnerRegister(j) ==
    /\ runner[j].pc = "register"
    /\ processes_lock = "free"
    /\ active_processes' = active_processes \cup {j}
    /\ reader' = [reader EXCEPT ![j].pc = "read"]
    /\ runner' = [runner EXCEPT ![j].pc = "stdout"]
    /\ UNCHANGED <<now, jobs, processes_lock, temp_dirs, out_dirs, proc, http,
                   last_cancel, accepted, returned_ok, reaper,
                   jobs_lock, lockstep>>

\* lines 304-309: read stdout to its end, wait for the process
RunnerReadStdout(j) ==
    /\ runner[j].pc = "stdout"
    /\ proc[j].state = "exited"
    /\ runner' = [runner EXCEPT
                    ![j].pc = "untrack",
                    ![j].stdout_output =
                        [i \in 1..Len(proc[j].stdout) |-> Strip(proc[j].stdout[i])]]
    /\ UNCHANGED <<now, jobs, active_processes, processes_lock, temp_dirs, out_dirs,
                   proc, reader, http, last_cancel, accepted, returned_ok, reaper,
                   jobs_lock, lockstep>>

\* lines 312-314: stop tracking the process
RunnerUntrack(j) ==
    /\ runner[j].pc = "untrack"
    /\ processes_lock = "free"
    /\ active_processes' = active_processes \ {j}
    /\ runner' = [runner EXCEPT ![j].pc = "check"]
    /\ UNCHANGED <<now, jobs, processes_lock, temp_dirs, out_dirs, proc, reader,
                   http, last_cancel, accepted, returned_ok, reaper,
                   jobs_lock, lockstep>>

\* lines 317-365: read the status; return on cancelled, raise on a non-zero
\* exit code, else build stems from the DONE: line
RunnerCheck(j) ==
    /\ runner[j].pc = "check"
    /\ LET job == GetJob(jobs, j)
           returncode == proc[j].returncode[1]
           output_files == OutputFiles(runner[j].stdout_output)
           stems == StemsFromFiles(output_files, j, EmptyDict)
       IN  runner' =
             IF job # None /\ job[1].status = "cancelled"
             THEN [runner EXCEPT ![j].pc = "cancelled_temp"]
             ELSE IF returncode # 0
             THEN [runner EXCEPT
                     ![j].pc = "except_temp",
                     ![j].exc = WorkerExitedMessage(returncode,
                                                    ErrorMsg(runner[j].stdout_output))]
             ELSE [runner EXCEPT
                     ![j].pc = IF DOMAIN stems = {} THEN "scan" ELSE "cleanup_temp",
                     ![j].elapsed = now - runner[j].start_time,
                     ![j].output_files = output_files,
                     ![j].stems = stems]
    /\ UNCHANGED <<now, jobs, active_processes, processes_lock, temp_dirs, out_dirs,
                   proc, reader, http, last_cancel, accepted, returned_ok, reaper,
                   jobs_lock, lockstep>>

\* lines 319-322: the job was cancelled
RunnerCancelledTemp(j) ==
    /\ runner[j].pc = "cancelled_temp"
    /\ temp_dirs' = CleanupTemp(temp_dirs, j)
    /\ runner' = [runner EXCEPT ![j].pc = "cancelled_out"]
    /\ UNCHANGED <<now, jobs, active_processes, processes_lock, out_dirs, proc,
                   reader, http, last_cancel, accepted, returned_ok, reaper,
                   jobs_lock, lockstep>>

RunnerCancelledOut(j) ==
    /\ runner[j].pc = "cancelled_out"
    /\ out_dirs' = CleanupOut(out_dirs, j)
    /\ runner' = [runner EXCEPT ![j].pc = "done"]
    /\ UNCHANGED <<now, jobs, active_processes, processes_lock, temp_dirs, proc,
                   reader, http, last_cancel, accepted, returned_ok, reaper,
                   jobs_lock, lockstep>>

\* lines 368-378: no stem from the DONE: line, scan the output directory
RunnerScan(j) ==
    /\ runner[j].pc = "scan"
    /\ j \in DOMAIN out_dirs
    /\ \E listing \in Orderings(out_dirs[j].files) :
          runner' = [runner EXCEPT
                       ![j].pc = "cleanup_temp",
                       ![j].listing = Some(listing),
                       ![j].stems = StemsFromScan(listing, j, EmptyDict)]
    /\ UNCHANGED <<now, jobs, active_processes, processes_lock, temp_dirs, out_dirs,
                   proc, reader, http, last_cancel, accepted, returned_ok, reaper,
                   jobs_lock, lockstep>>

\* line 370: os.listdir raises, the output directory is gone
RunnerScanFails(j) ==
    /\ runner[j].pc = "scan"
    /\ j \notin DOMAIN out_dirs
    /\ runner' = [runner EXCEPT ![j].pc = "except_temp", ![j].exc = LISTDIR_ERROR]
    /\ UNCHANGED <<now, jobs, active_processes, processes_lock, temp_dirs, out_dirs,
                   proc, reader, http, last_cancel, accepted, returned_ok, reaper,
                   jobs_lock, lockstep>>

\* line 381
RunnerCleanupTemp(j) ==
    /\ runner[j].pc = "cleanup_temp"
    /\ temp_dirs' = CleanupTemp(temp_dirs, j)
    /\ runner' = [runner EXCEPT ![j].pc = "complete"]
    /\ UNCHANGED <<now, jobs, active_processes, processes_lock, out_dirs, proc,
                   reader, http, last_cancel, accepted, returned_ok, reaper,
                   jobs_lock, lockstep>>

\* the keyword arguments of the update_job call of lines 383-392
CompleteUpdate(stems, elapsed) ==
    [status |-> "complete", progress |-> 100, message |-> "Separation complete!",
     stems |-> Some(stems), processing_time |-> Some(elapsed),
     device_used |-> DEVICE_TYPE, eta_seconds |-> Some(0)]

\* lines 383-392
RunnerComplete(j) ==
    /\ runner[j].pc = "complete"
    /\ jobs' = UpdateJob(jobs, j, CompleteUpdate(runner[j].stems, runner[j].elapsed))
    /\ runner' = [runner EXCEPT ![j].pc = "done"]
    /\ UNCHANGED <<now, active_processes, processes_lock, temp_dirs, out_dirs, proc,
                   reader, http, last_cancel, accepted, returned_ok, reaper,
                   jobs_lock, lockstep>>

\* lines 394-399: the except branch cleans up
RunnerExceptTemp(j) ==
    /\ runner[j].pc = "except_temp"
    /\ temp_dirs' = CleanupTemp(temp_dirs, j)
    /\ runner' = [runner EXCEPT ![j].pc = "except_out"]
    /\ UNCHANGED <<now, jobs, active_processes, processes_lock, out_dirs, proc,
                   reader, http, last_cancel, accepted, returned_ok, reaper,
                   jobs_lock, lockstep>>

RunnerExceptOut(j) ==
    /\ runner[j].pc = "except_out"
    /\ out_dirs' = CleanupOut(out_dirs, j)
    /\ runner' = [runner EXCEPT ![j].pc = "except_get"]
    /\ UNCHANGED <<now, jobs, active_processes, processes_lock, temp_dirs, proc,
                   reader, http, last_cancel, accepted, returned_ok, reaper,
                   jobs_lock, lockstep>>

\* lines 402-403: read the status again
RunnerExceptGet(j) ==
    /\ runner[j].pc = "except_get"
    /\ LET job == GetJob(jobs, j)
       IN  runner' = [runner EXCEPT
                        ![j].pc = IF job # None /\ job[1].status # "cancelled"
                                  THEN "except_update" ELSE "done"]
    /\ UNCHANGED <<now, jobs, active_processes, processes_lock, temp_dirs, out_dirs,
                   proc, reader, http, last_cancel, accepted, returned_ok, reaper,
                   jobs_lock, lockstep>>

\* an error update that leaves the status alone
ErrorUpdate_Mutant(exc) == [progress |-> 0, message |-> exc]

\* the keyword arguments of the update_job call of lines 404-409
ErrorUpdate(exc) == [status |-> "error", progress |-> 0, message |-> exc]

\* lines 404-409
RunnerExceptUpdate(j) ==
    /\ runner[j].pc = "except_update"
    /\ jobs' = UpdateJob(jobs, j, ErrorUpdate(runner[j].exc))
    /\ runner' = [runner EXCEPT ![j].pc = "done"]
    /\ UNCHANGED <<now, active_processes, processes_lock, temp_dirs, out_dirs, proc,
                   reader, http, last_cancel, accepted, returned_ok, reaper,
                   jobs_lock, lockstep>>

RMTREE_ERROR == "[Errno 13] Permission denied"

\* line 381: shutil.rmtree raises inside the try block
RunnerCleanupTempFails(j) ==
    /\ runner[j].pc = "cleanup_temp"
    /\ j \in temp_dirs
    /\ runner' = [runner EXCEPT ![j].pc = "except_temp", ![j].exc = RMTREE_ERROR]
    /\ UNCHANGED <<now, jobs, active_processes, processes_lock, temp_dirs, out_dirs,
                   proc, reader, http, last_cancel, accepted, returned_ok, reaper,
                   jobs_lock, lockstep>>

\* lines 319-320: shutil.rmtree raises inside the try block
RunnerCancelledFails(j) ==
    /\ \/ runner[j].pc = "cancelled_temp" /\ j \in temp_dirs
       \/ runner[j].pc = "cancelled_out" /\ j \in DOMAIN out_dirs
    /\ runner' = [runner EXCEPT ![j].pc = "except_temp", ![j].exc = RMTREE_ERROR]
    /\ UNCHANGED <<now, jobs, active_processes, processes_lock, temp_dirs, out_dirs,
                   proc, reader, http, last_cancel, accepted, returned_ok, reaper,
                   jobs_lock, lockstep>>

\* lines 397-398: shutil.rmtree raises inside the except block; nothing
\* catches the exception and the thread ends
RunnerExceptFails(j) ==
    /\ \/ runner[j].pc = "except_temp" /\ j \in temp_dirs
       \/ runner[j].pc = "except_out" /\ j \in DOMAIN out_dirs
    /\ runner' = [runner EXCEPT ![j].pc = "crashed", ![j].exc = RMTREE_ERROR]
    /\ UNCHANGED <<now, jobs, active_processes, processes_lock, temp_dirs, out_dirs,
                   proc, reader, http, last_cancel, accepted, returned_ok, reaper,
                   jobs_lock, lockstep>>

\* the runner's calls of cleanup_files failing
RunnerRmtreeFails(j) ==
    RunnerCleanupTempFails(j) \/ RunnerCancelledFails(j) \/ RunnerExceptFails(j)

Runner(j) ==
    \/ RunnerStart(j) \/ RunnerPopen(j) \/ RunnerPopenFails(j) \/ RunnerRegister(j)
    \/ RunnerReadStdout(j) \/ RunnerUntrack(j) \/ RunnerCheck(j)
    \/ RunnerCancelledTemp(j) \/ RunnerCancelledOut(j)
    \/ RunnerScan(j) \/ RunnerScanFails(j) \/ RunnerCleanupTemp(j) \/ RunnerComplete(j)
    \/ RunnerExceptTemp(j) \/ RunnerExceptOut(j) \/ RunnerExceptGet(j)
    \/ RunnerExceptUpdate(j)

----------------------------------------------------------------------------
(* read_stderr: the reader thread of job j *)

DOWNLOADING == <<"D", "o", "w", "n", "l", "o", "a", "d", "i", "n", "g">>
FULL == <<"1", "0", "0", "%", "|">>

\* lines 273-296: one complete line is read and handled up to parse_tqdm_line
ReaderLine(j) ==
    /\ reader[j].pc = "read"
    /\ proc[j].stderr # <<>>
    /\ LET buffer == Head(proc[j].stderr)
           line_stripped == Strip(buffer)
           is_downloading == reader[j].is_downloading \/ Contains(line_stripped, DOWNLOADING)
           update == TqdmUpdate(buffer, is_downloading)
       IN  IF buffer = <<>>
           THEN UNCHANGED <<jobs, reader>>
           ELSE /\ jobs' = IF update = None THEN jobs ELSE UpdateJob(jobs, j, update[1])
                /\ reader' = IF is_downloading /\ Contains(line_stripped, FULL)
                             THEN [reader EXCEPT ![j].pc = "reset",
                                                 ![j].is_downloading = FALSE]
                             ELSE [reader EXCEPT ![j].is_downloading = is_downloading]
    /\ proc' = [proc EXCEPT ![j].stderr = Tail(@)]
    /\ UNCHANGED <<now, active_processes, processes_lock, temp_dirs, out_dirs,
                   runner, http, last_cancel, accepted, returned_ok, reaper,
                   jobs_lock, lockstep>>

\* line 292: the download has finished
ReaderReset(j) ==
    /\ reader[j].pc = "reset"
    /\ jobs' = UpdateJob(jobs, j,
                  [message |-> "Loading AI model into memory (takes 1-2 mins)...",
                   progress |-> 0, eta_seconds |-> None])
    /\ reader' = [reader EXCEPT ![j].pc = "read"]
    /\ UNCHANGED <<now, active_processes, processes_lock, temp_dirs, out_dirs,
                   proc, runner, http, last_cancel, accepted, returned_ok, reaper,
                   jobs_lock, lockstep>>

\* lines 273-275: end of the stream
ReaderEof(j) ==
    /\ reader[j].pc = "read"
    /\ proc[j].stderr = <<>>
    /\ proc[j].state = "exited"
    /\ reader' = [reader EXCEPT ![j].pc = "done"]
    /\ UNCHANGED <<now, jobs, active_processes, processes_lock, temp_dirs, out_dirs,
                   proc, runner, http, last_cancel, accepted, returned_ok, reaper,
                   jobs_lock, lockstep>>

Reader(j) == ReaderLine(j) \/ ReaderReset(j) \/ ReaderEof(j)

----------------------------------------------------------------------------
(* POST /cancel/{job_id}: cancel_job, run on the event loop *)

\* a check that lets a complete job through
IsActive_Mutant(status) == status \in {"uploading", "processing", "complete"}

\* line 569: the statuses a job may be cancelled in
IsActive(status) == status \in {"uploading", "processing"}

\* a wait that always ends in kill()
WaitTimesOut_Mutant(state) == TRUE

\* lines 584-587: process.wait(timeout=3) raises TimeoutExpired
WaitTimesOut(state) == state # "exited"

\* lines 565-570: look the job up; 404 or 400 unless it is active
CancelJob(j) ==
    /\ http.pc = "idle"
    /\ LET job == GetJob(jobs, j)
           after_ok == returned_ok[j] # {}
       IN  IF job = None
           THEN /\ last_cancel' = CallEntry(j, "none", "NotFound", after_ok)
                /\ UNCHANGED <<http, accepted>>
           ELSE IF ~IsActive(job[1].status)
           THEN /\ last_cancel' = CallEntry(j, job[1].status, "InvalidState", after_ok)
                /\ UNCHANGED <<http, accepted>>
           ELSE /\ last_cancel' = CallEntry(j, job[1].status, "pending", after_ok)
                /\ accepted' = [accepted EXCEPT ![j] = @ \cup {job[1].status}]
                /\ http' = [pc |-> "mark", job_id |-> j]
    /\ UNCHANGED <<now, jobs, active_processes, processes_lock, temp_dirs, out_dirs,
                   proc, runner, reader, returned_ok, reaper,
                   jobs_lock, lockstep>>

\* line 575
CancelMark ==
    /\ http.pc = "mark"
    /\ jobs' = UpdateJob(jobs, http.job_id,
                         [status |-> "cancelled", message |-> "Job cancelled by user"])
    /\ http' = [http EXCEPT !.pc = "lock"]
    /\ UNCHANGED <<now, active_processes, processes_lock, temp_dirs, out_dirs,
                   proc, runner, reader, last_cancel, accepted, returned_ok, reaper,
                   jobs_lock, lockstep>>

\* lines 577-581: take processes_lock, look the process up, terminate() it
CancelLock ==
    /\ http.pc = "lock"
    /\ processes_lock = "free"
    /\ IF http.job_id \in active_processes
       THEN /\ proc' = [proc EXCEPT ![http.job_id].signals = Append(@, "terminate")]
            /\ processes_lock' = "cancel_job"
            /\ http' = [http EXCEPT !.pc = "wait"]
            /\ last_cancel' = [last_cancel EXCEPT !.tracked = TRUE]
       ELSE /\ http' = [http EXCEPT !.pc = "cleanup_temp"]
            /\ UNCHANGED <<proc, processes_lock, last_cancel>>
    /\ UNCHANGED <<now, jobs, active_processes, temp_dirs, out_dirs, runner, reader,
                   accepted, returned_ok, reaper,
                   jobs_lock, lockstep>>

\* lines 584-588: wait up to 3 seconds, kill() on timeout, drop the entry,
\* release processes_lock
CancelWait ==
    /\ http.pc = "wait"
    /\ IF WaitTimesOut(proc[http.job_id].state)
       THEN /\ proc' = [proc EXCEPT ![http.job_id].signals = Append(@, "kill")]
            /\ last_cancel' = [last_cancel EXCEPT !.timed_out = TRUE]
       ELSE UNCHANGED <<proc, last_cancel>>
    /\ active_processes' = active_processes \ {http.job_id}
    /\ processes_lock' = "free"
    /\ http' = [http EXCEPT !.pc = "cleanup_temp"]
    /\ UNCHANGED <<now, jobs, temp_dirs, out_dirs, runner, reader, accepted,
                   returned_ok, reaper,
                   jobs_lock, lockstep>>

\* line 593
CancelCleanupTemp ==
    /\ http.pc = "cleanup_temp"
    /\ temp_dirs' = CleanupTemp(temp_dirs, http.job_id)
    /\ http' = [http EXCEPT !.pc = "cleanup_out"]
    /\ UNCHANGED <<now, jobs, active_processes, processes_lock, out_dirs, proc,
                   runner, reader, last_cancel, accepted, returned_ok, reaper,
                   jobs_lock, lockstep>>

\* lines 594-597: the last cleanup, then the 200 response
CancelCleanupOut ==
    /\ http.pc = "cleanup_out"
    /\ out_dirs' = CleanupOut(out_dirs, http.job_id)
    /\ last_cancel' = [last_cancel EXCEPT !.result = "Ok"]
    /\ returned_ok' = [returned_ok EXCEPT ![http.job_id] = @ \cup {last_cancel.read}]
    /\ http' = Idle
    /\ UNCHANGED <<now, jobs, active_processes, processes_lock, temp_dirs, proc,
                   runner, reader, accepted, reaper,
                   jobs_lock, lockstep>>

Cancel == CancelMark \/ CancelLock \/ CancelWait \/ CancelCleanupTemp \/ CancelCleanupOut

----------------------------------------------------------------------------
(* background_cleanup_thread *)

\* line 428
DirExpired(dir, t) == dir.mtime < t - RETENTION_SECONDS

\* a test that takes cancelled records as well
RecordExpired_Mutant(j, t) ==
    /\ j.status \in {"complete", "error", "cancelled"}
    /\ j.started_at # 0
    /\ t - j.started_at > RETENTION_SECONDS

\* lines 435-437
RecordExpired(j, t) ==
    /\ j.status \in {"complete", "error"}
    /\ j.started_at # 0
    /\ t - j.started_at > RETENTION_SECONDS

\* a thread that an exception in a cycle ends
REAPER_DEAD == "dead"

\* the position of the thread after an exception in a cycle: line 442
REAPER_AFTER_ERROR == "fallback"

\* lines 423-439: one cycle removes the expired output directories, then the
\* expired records, and goes to sleep
ReaperCycle ==
    /\ reaper = "cycle"
    /\ out_dirs' = [d \in {x \in DOMAIN out_dirs : ~DirExpired(out_dirs[x], now)}
                      |-> out_dirs[d]]
    /\ jobs' = [jid \in {x \in DOMAIN jobs : ~RecordExpired(jobs[x], now)}
                  |-> jobs[jid]]
    /\ reaper' = "sleep"
    /\ UNCHANGED <<now, active_processes, processes_lock, temp_dirs, proc, runner,
                   reader, http, last_cancel, accepted, returned_ok,
                   jobs_lock, lockstep>>

\* lines 425-429, 440-441: os.listdir, os.stat or shutil.rmtree raises during
\* the sweep of the directories; the expired directories handled before are
\* gone, the records are not looked at, and the exception is caught
ReaperCycleFails ==
    /\ reaper = "cycle"
    /\ \E removed \in SUBSET {x \in DOMAIN out_dirs : DirExpired(out_dirs[x], now)} :
          out_dirs' = [d \in DOMAIN out_dirs \ removed |-> out_dirs[d]]
    /\ reaper' = REAPER_AFTER_ERROR
    /\ UNCHANGED <<now, jobs, active_processes, processes_lock, temp_dirs, proc,
                   runner, reader, http, last_cancel, accepted, returned_ok,
                   jobs_lock, lockstep>>

\* lines 439, 442: time.sleep returns, the loop starts the next cycle
ReaperWake ==
    /\ reaper \in {"sleep", "fallback"}
    /\ reaper' = "cycle"
    /\ UNCHANGED <<now, jobs, active_processes, processes_lock, temp_dirs, out_dirs,
                   proc, runner, reader, http, last_cancel, accepted, returned_ok,
                   jobs_lock, lockstep>>

Reaper == ReaperCycle \/ ReaperCycleFails \/ ReaperWake

----------------------------------------------------------------------------

\* every thread of the server and the worker processes
Next ==
    \/ Tick
    \/ \E j \in JobIds : SeparateAudio(j)
    \/ \E j \in JobIds : CancelJob(j)
    \/ Cancel
    \/ \E j \in JobIds : Runner(j)
    \/ \E j \in JobIds : Reader(j)
    \/ \E j \in JobIds, line \in StderrLines : WorkerWrite(j, line)
    \/ \E j \in JobIds, outcome \in WorkerOutcomes : WorkerExit(j, outcome)
    \/ \E j \in JobIds : WorkerSignalled(j)
    \/ Reaper

Spec == Init /\ [][Next]_vars

\* the life of a job within one retention window: the request handlers, the
\* runner and reader threads and the worker, with the clock standing still
NextJob ==
    \/ \E j \in JobIds : SeparateAudio(j)
    \/ \E j \in JobIds : CancelJob(j)
    \/ Cancel
    \/ \E j \in JobIds : Runner(j)
    \/ \E j \in JobIds : Reader(j)
    \/ \E j \in JobIds, line \in StderrLines : WorkerWrite(j, line)
    \/ \E j \in JobIds, outcome \in WorkerOutcomes : WorkerExit(j, outcome)
    \/ \E j \in JobIds : WorkerSignalled(j)

SpecJob == Init /\ [][NextJob]_vars

\* the same, with directories that shutil.rmtree may fail to delete
NextFaulty ==
    \/ NextJob
    \/ \E j \in JobIds : RunnerRmtreeFails(j)

SpecFaulty == Init /\ [][NextFaulty]_vars

\* the steps of the runner other than RunnerCheck and RunnerScan
RunnerLight(j) ==
    \/ RunnerStart(j) \/ RunnerPopen(j) \/ RunnerPopenFails(j) \/ RunnerRegister(j)
    \/ RunnerReadStdout(j) \/ RunnerUntrack(j)
    \/ RunnerCancelledTemp(j) \/ RunnerCancelledOut(j)
    \/ RunnerScanFails(j) \/ RunnerCleanupTemp(j) \/ RunnerComplete(j)
    \/ RunnerExceptTemp(j) \/ RunnerExceptOut(j) \/ RunnerExceptGet(j)
    \/ RunnerExceptUpdate(j)

\* the threads keep running, the handler of a request runs to its response,
\* and a worker that was launched exits, by itself or by a signal.  The weak
\* fairness of RunnerCheck, RunnerScan and ReaderLine is written with their
\* enabling conditions: RunnerCheck and RunnerScan are enabled exactly at
\* their position and always leave it; ReaderLine is enabled exactly while the
\* reader has a line to read, and a worker writes finitely many.
FairJob ==
    \A j \in JobIds :
        /\ WF_vars(RunnerLight(j))
        /\ []<>(runner[j].pc # "check")
        /\ []<>(runner[j].pc # "scan")
        /\ WF_vars(ReaderReset(j) \/ ReaderEof(j))
        /\ []<>(~(reader[j].pc = "read" /\ proc[j].stderr # <<>>))
        /\ WF_vars(Cancel)
        /\ WF_vars(\E outcome \in WorkerOutcomes : WorkerExit(j, outcome))
        /\ WF_vars(WorkerSignalled(j))

SpecJobFair == SpecJob /\ FairJob

\* the life of a job from its submission to the removal of its record: the
\* clock, the request handlers, the runner, the reaper and a worker that
\* writes no progress lines
NextLife ==
    \/ Tick
    \/ \E j \in JobIds : SeparateAudio(j)
    \/ \E j \in JobIds : CancelJob(j)
    \/ Cancel
    \/ \E j \in JobIds : Runner(j)
    \/ \E j \in JobIds : ReaderEof(j)
    \/ \E j \in JobIds, outcome \in WorkerOutcomes : WorkerExit(j, outcome)
    \/ \E j \in JobIds : WorkerSignalled(j)
    \/ Reaper

SpecLife == Init /\ [][NextLife]_vars

\* time passes, and the reaper thread keeps running: a cycle ends, by itself
\* or by an exception, and a sleep ends; cycles do not fail forever
FairReaper ==
    /\ WF_vars(Tick)
    /\ WF_vars(ReaperCycle \/ ReaperCycleFails)
    /\ WF_vars(ReaperWake)
    /\ SF_vars(ReaperCycle)

SpecLifeFair == SpecLife /\ FairJob /\ FairReaper

\* the reaper at work on jobs that nobody cancels
NextReaper ==
    \/ Tick
    \/ \E j \in JobIds : SeparateAudio(j)
    \/ \E j \in JobIds :
          \/ RunnerStart(j) \/ RunnerPopen(j) \/ RunnerPopenFails(j) \/ RunnerRegister(j)
          \/ RunnerReadStdout(j) \/ RunnerUntrack(j) \/ RunnerCheck(j)
          \/ RunnerScan(j) \/ RunnerScanFails(j) \/ RunnerCleanupTemp(j)
          \/ RunnerComplete(j) \/ RunnerExceptTemp(j) \/ RunnerExceptOut(j)
          \/ RunnerExceptGet(j) \/ RunnerExceptUpdate(j)
    \/ \E j \in JobIds : ReaderEof(j)
    \/ \E j \in JobIds, outcome \in WorkerOutcomes : WorkerExit(j, outcome)
    \/ Reaper

\* the reaper thread keeps running, whatever the other threads do
SpecReaperFair == Init /\ [][NextReaper]_vars /\ WF_vars(Reaper)

----------------------------------------------------------------------------
(* The reader and parse_tqdm_line on lines of many shapes *)

BAR == <<"%", "|">>

\* text before and after a progress token
ParsePrefixes ==
    { <<>>, <<"x">>, <<"1">>, <<"7", "%", "|", " ">>, DOWNLOADING \o <<" ">> }
ParseNumbers == { <<"0">>, <<"7">>, <<"5", "0">>, <<"1", "0", "0">> }
ParseSuffixes == { <<>>, <<"<", "1", ":", "0", "0">>, <<" ", "y">> }

\* lines without a progress token
PlainLines ==
    { <<>>, <<"a", "b", "c">>, <<"5", "0", "%">>, BAR, <<"5", "0", " ", "%", "|">>,
      <<"<", "1", ":", "0", "0">> }

ParseLines ==
    {pre \o num \o BAR \o suf :
        pre \in ParsePrefixes, num \in ParseNumbers, suf \in ParseSuffixes}
      \cup PlainLines

\* a job in processing whose worker has written up to MaxParsed lines to
\* stderr and exited; the runner is past its stdout loop, the reader has read
\* nothing yet
InitParse ==
    /\ now = 1
    /\ jobs = [j \in JobIds |->
                 [NewJob(1) EXCEPT !.status = "processing",
                                   !.message = "Initializing worker..."]]
    /\ active_processes = JobIds
    /\ processes_lock = "free"
    /\ temp_dirs = JobIds
    /\ out_dirs = [j \in JobIds |-> [files |-> {}, mtime |-> 1]]
    /\ \E n \in 1..MaxParsed : \E lines \in [1..n -> ParseLines] :
          proc = [j \in JobIds |->
                    [NoProc EXCEPT !.state = "exited", !.returncode = Some(1),
                                   !.stderr = lines, !.written = n]]
    /\ runner = [j \in JobIds |-> [NoRunner EXCEPT !.pc = "stdout", !.start_time = 1]]
    /\ reader = [j \in JobIds |-> [NoReader EXCEPT !.pc = "read"]]
    /\ http = Idle
    /\ last_cancel = NoCall
    /\ accepted = [j \in JobIds |-> {}]
    /\ returned_ok = [j \in JobIds |-> {}]
    /\ reaper = "cycle"
    /\ jobs_lock = "free"
    /\ lockstep = NoLockstep

NextParse == \E j \in JobIds : Reader(j)

SpecParse == InitParse /\ [][NextParse]_vars

----------------------------------------------------------------------------
(* The two pipes of the worker, with buffers that fill up *)

\* lines the worker writes to each channel: more than a pipe holds
Volume == PipeCapacity + 1

\* lines the worker has printed on stdout so far
PrintedLines(j) == Len(runner[j].stdout_output) + Len(proc[j].stdout)

STDOUT_LINE == DONE_MARK \o F_VOCALS \o <<"\n">>

\* the worker writes a line to stderr; the write blocks while the pipe is full
WorkerWriteStderr(j, line) ==
    /\ proc[j].state = "running"
    /\ proc[j].written < Volume
    /\ Len(proc[j].stderr) < PipeCapacity
    /\ proc' = [proc EXCEPT ![j].stderr = Append(@, line), ![j].written = @ + 1]
    /\ UNCHANGED <<now, jobs, active_processes, processes_lock, temp_dirs, out_dirs,
                   runner, reader, http, last_cancel, accepted, returned_ok, reaper,
                   jobs_lock, lockstep>>

\* the worker prints a line on stdout; the write blocks while the pipe is full
WorkerWriteStdout(j) ==
    /\ proc[j].state = "running"
    /\ PrintedLines(j) < Volume
    /\ Len(proc[j].stdout) < PipeCapacity
    /\ proc' = [proc EXCEPT ![j].stdout = Append(@, STDOUT_LINE)]
    /\ UNCHANGED <<now, jobs, active_processes, processes_lock, temp_dirs, out_dirs,
                   runner, reader, http, last_cancel, accepted, returned_ok, reaper,
                   jobs_lock, lockstep>>

\* the worker has written everything and exits; its ends of the pipes close
WorkerFinish(j) ==
    /\ proc[j].state = "running"
    /\ proc[j].written = Volume
    /\ PrintedLines(j) = Volume
    /\ proc' = [proc EXCEPT ![j].state = "exited", ![j].returncode = Some(0)]
    /\ UNCHANGED <<now, jobs, active_processes, processes_lock, temp_dirs, out_dirs,
                   runner, reader, http, last_cancel, accepted, returned_ok, reaper,
                   jobs_lock, lockstep>>

\* lines 305-307: the runner reads one line of stdout
RunnerReadline(j) ==
    /\ runner[j].pc = "stdout"
    /\ proc[j].stdout # <<>>
    /\ runner' = [runner EXCEPT ![j].stdout_output = Append(@, Strip(Head(proc[j].stdout)))]
    /\ proc' = [proc EXCEPT ![j].stdout = Tail(@)]
    /\ UNCHANGED <<now, jobs, active_processes, processes_lock, temp_dirs, out_dirs,
                   reader, http, last_cancel, accepted, returned_ok, reaper,
                   jobs_lock, lockstep>>

\* lines 305-309: readline returns '' at end of stream, process.wait() returns
RunnerStdoutEof(j) ==
    /\ runner[j].pc = "stdout"
    /\ proc[j].stdout = <<>>
    /\ proc[j].state = "exited"
    /\ runner' = [runner EXCEPT ![j].pc = "untrack"]
    /\ UNCHANGED <<now, jobs, active_processes, processes_lock, temp_dirs, out_dirs,
                   proc, reader, http, last_cancel, accepted, returned_ok, reaper,
                   jobs_lock, lockstep>>

\* a reader thread that is run once the stdout loop has ended
ReaderRuns_Mutant(j) == reader[j].pc = "read" /\ runner[j].pc # "stdout"

\* lines 300-301: the reader thread is started before the stdout loop and
\* runs beside it
ReaderRuns(j) == reader[j].pc = "read"

\* the reader thread takes a line out of the stderr pipe
ReaderDrain(j) == ReaderRuns(j) /\ ReaderLine(j)

\* the reader thread sees the end of the stderr stream
ReaderDrainEof(j) == ReaderRuns(j) /\ ReaderEof(j)

\* a job from its submission to the moment the runner has seen its worker exit
NextPipes ==
    \/ \E j \in JobIds : SeparateAudio(j)
    \/ \E j \in JobIds : RunnerStart(j) \/ RunnerPopen(j) \/ RunnerRegister(j)
    \/ \E j \in JobIds : RunnerReadline(j) \/ RunnerStdoutEof(j)
    \/ \E j \in JobIds : ReaderDrain(j) \/ ReaderDrainEof(j)
    \/ \E j \in JobIds, line \in {LINE_50, LINE_150} : WorkerWriteStderr(j, line)
    \/ \E j \in JobIds : WorkerWriteStdout(j) \/ WorkerFinish(j)

SpecPipes == Init /\ [][NextPipes]_vars

\* the threads and the worker keep running: a worker that is not blocked goes
\* on, the runner goes on, and the reader, while it runs, takes the next line
\* of a pipe that holds one (written with the enabling condition of
\* ReaderDrain; a worker writes finitely many lines)
FairPipes ==
    \A j \in JobIds :
        /\ WF_vars(RunnerStart(j) \/ RunnerPopen(j) \/ RunnerRegister(j))
        /\ WF_vars(RunnerReadline(j) \/ RunnerStdoutEof(j))
        /\ WF_vars(ReaderDrainEof(j))
        /\ []<>(~(ReaderRuns(j) /\ proc[j].stderr # <<>>))
        /\ WF_vars(\E line \in {LINE_50, LINE_150} : WorkerWriteStderr(j, line))
        /\ WF_vars(WorkerWriteStdout(j) \/ WorkerFinish(j))

SpecPipesFair == SpecPipes /\ FairPipes

----------------------------------------------------------------------------
(* Properties *)

Terminal == {"complete", "error", "cancelled"}

RunnerDone(j) == runner[j].pc = "done"
ReaderDone(j) == reader[j].pc = "done"
Signals(j) == {proc[j].signals[i] : i \in 1..Len(proc[j].signals)}
Printed(j, mark) == \E i \in 1..Len(proc[j].stdout) : StartsWith(proc[j].stdout[i], mark)

\* C1: when a cancel request that read status processing has returned 200 and
\* the worker has ended by itself with exit code 0, the job that the runner
\* leaves behind has status cancelled.
C1_CancelWinsRace ==
    \A j \in JobIds :
        ("processing" \in returned_ok[j] /\ proc[j].returncode = Some(0) /\ RunnerDone(j))
            => (j \in DOMAIN jobs /\ jobs[j].status = "cancelled")

\* C2: a record whose status is complete, error or cancelled keeps that status
\* in every step; it may only be deleted.
C2_TerminalIsFinal ==
    [][\A j \in DOMAIN jobs :
          jobs[j].status \in Terminal
              => (j \notin DOMAIN jobs' \/ jobs'[j].status = jobs[j].status)]_vars

\* C3: a call of cancel that starts after an earlier call for the same job has
\* returned 200 returns InvalidState (400) or NotFound (404).
C3_SecondCancelRejected ==
    (last_cancel.after_ok /\ last_cancel.result # "pending")
        => last_cancel.result \in {"InvalidState", "NotFound"}

\* C4: a call of cancel for an id without a record returns NotFound, a call
\* that reads a terminal status returns InvalidState, and in both cases the
\* handler ends there: the registry, the tracked processes, the directories and
\* the processes (so the signals sent to them) are as before.
C4_RejectedCancelChangesNothing ==
    [][\A j \in JobIds :
          CancelJob(j) =>
              /\ j \notin DOMAIN jobs =>
                    /\ last_cancel'.result = "NotFound"
                    /\ http' = Idle
                    /\ UNCHANGED <<jobs, active_processes, temp_dirs, out_dirs, proc>>
              /\ (j \in DOMAIN jobs /\ jobs[j].status \in Terminal) =>
                    /\ last_cancel'.result = "InvalidState"
                    /\ http' = Idle
                    /\ UNCHANGED <<jobs, active_processes, temp_dirs, out_dirs, proc>>]_vars

\* a cancel request for a complete job has been answered InvalidState
C4_Witness ==
    /\ last_cancel.result = "InvalidState"
    /\ last_cancel.read = "complete"
    /\ jobs[last_cancel.job_id].status = "complete"

\* C5: the progress of every record is between 0 and 100.
C5_ProgressInRange ==
    \A j \in DOMAIN jobs : jobs[j].progress \in 0..100

\* C6: the stems of a record are set exactly when its status is complete.
C6_StemsIffComplete ==
    \A j \in DOMAIN jobs : (jobs[j].stems # None) <=> (jobs[j].status = "complete")

\* C7: when the worker has written progress lines, printed a DONE: line and
\* exited with code 0, no cancel request was accepted, and the runner and the
\* reader have both finished, the record has status complete and progress 100
\* (stated for the runs in which no percentage above 100 is left in the record,
\* which is the subject of C5).
C7_SuccessfulRunEndsComplete ==
    \A j \in JobIds :
        ( /\ accepted[j] = {}
          /\ proc[j].returncode = Some(0)
          /\ Printed(j, DONE_MARK)
          /\ proc[j].written > 0
          /\ RunnerDone(j)
          /\ ReaderDone(j)
          /\ j \in DOMAIN jobs
          /\ jobs[j].progress \in 0..100 )
            => /\ j \in DOMAIN jobs
               /\ jobs[j].status = "complete"
               /\ jobs[j].progress = 100

\* C8 as stated: after a non-zero exit, with no cancel request accepted, the
\* record the runner leaves behind has status error and, as its message, the
\* text the worker printed after ERROR: ("model not found"), or the generic
\* text when it printed no ERROR: line.
C8_MessageIsWorkerText ==
    \A j \in JobIds :
        ( /\ accepted[j] = {}
          /\ proc[j].returncode = Some(1)
          /\ RunnerDone(j)
          /\ ReaderDone(j) )
            => /\ j \in DOMAIN jobs
               /\ jobs[j].status = "error"
               /\ jobs[j].message = IF Printed(j, ERROR_MARK) THEN "model not found"
                                    ELSE "Unknown error occurred"

\* the message C8 expects of the runner's error update, given what the worker
\* of job j printed and how it exited
C8_Expected(j) ==
    "Worker exited with code " \o ToString(proc[j].returncode[1]) \o ": "
        \o (IF Printed(j, ERROR_MARK) THEN "model not found" ELSE "Unknown error occurred")

\* C8, amended: after a non-zero exit, with no cancel request accepted, the
\* record the runner leaves behind has status error, and the runner's error
\* update sets the message to "Worker exited with code <code>: <msg>", <msg>
\* being the text after ERROR: or "Unknown error occurred".
C8_MessageCarriesExitCode ==
    /\ [](\A j \in JobIds :
            (accepted[j] = {} /\ proc[j].returncode \notin {None, Some(0)} /\ RunnerDone(j)
                /\ j \in DOMAIN jobs)
                => jobs[j].status = "error")
    /\ [][\A j \in JobIds :
            (RunnerExceptUpdate(j) /\ proc[j].returncode \notin {None, Some(0)}
                /\ j \in DOMAIN jobs)
                => /\ jobs'[j].status = "error"
                   /\ jobs'[j].message = C8_Expected(j)]_vars

\* the worker printed ERROR:model not found and exited with code 1; the record is in error
C8_Witness ==
    \E j \in DOMAIN jobs :
        /\ accepted[j] = {}
        /\ proc[j].returncode = Some(1)
        /\ Printed(j, ERROR_MARK)
        /\ RunnerDone(j)
        /\ jobs[j].status = "error"
        /\ jobs[j].message = "Worker exited with code 1: model not found"

\* C9: once a cancel that read status processing has found the job's process
\* in active_processes, terminate is the first signal sent; cancel holds
\* processes_lock with the entry in place while it waits; the entry is gone before the directories are
\* removed; when cancel has returned, both directories of the job are gone;
\* and the status is cancelled from then on.  kill is sent only after
\* terminate and only to a process that has not exited by the end of the wait.
C9_CancelTerminatesTrackedProcess ==
    /\ []((last_cancel.tracked /\ last_cancel.read = "processing") =>
            LET j == last_cancel.job_id
            IN  /\ proc[j].signals # <<>>
                /\ proc[j].signals[1] = "terminate"
                /\ j \in DOMAIN jobs
                /\ jobs[j].status = "cancelled"
                /\ (last_cancel.result = "pending" /\ http.pc = "wait") =>
                        /\ j \in active_processes
                        /\ processes_lock = "cancel_job"
                        /\ "kill" \notin Signals(j)
                /\ (last_cancel.result = "Ok" \/ http.pc \in {"cleanup_temp", "cleanup_out"})
                        => j \notin active_processes
                /\ last_cancel.result = "Ok" => (j \notin temp_dirs /\ j \notin DOMAIN out_dirs))
    /\ [][\A j \in JobIds :
            ("kill" \in {proc'[j].signals[i] : i \in 1..Len(proc'[j].signals)}
                /\ "kill" \notin Signals(j))
                => /\ proc[j].state = "running"
                   /\ proc[j].signals = <<"terminate">>]_vars

\* cancel found the process, the wait timed out, kill followed terminate, the
\* call has returned and the runner has finished: the job is cancelled
C9_Witness ==
    /\ last_cancel.tracked
    /\ last_cancel.timed_out
    /\ last_cancel.result = "Ok"
    /\ last_cancel.read = "processing"
    /\ proc[last_cancel.job_id].signals = <<"terminate", "kill">>
    /\ RunnerDone(last_cancel.job_id)
    /\ jobs[last_cancel.job_id].status = "cancelled"
    /\ last_cancel.job_id \notin temp_dirs
    /\ last_cancel.job_id \notin DOMAIN out_dirs

\* the key C10 expects for a file of the output directory: the label of the
\* first of the keywords, in their order, that its lower-cased name contains,
\* else the name itself
C10_Key(f) ==
    LET has(i) == Contains(Lower(f), stem_keywords[i][1])
    IN  IF \E i \in 1..Len(stem_keywords) : has(i)
        THEN stem_keywords[CHOOSE i \in 1..Len(stem_keywords) :
                              has(i) /\ \A m \in 1..(i - 1) : ~has(m)][2]
        ELSE Join(f)

\* C10: when the result line named no file (or was missing) and the runner has
\* listed the output directory, the job does not fail, and the stems it
\* records have one key per .mp3 file listed -- the label of the file's
\* keyword, or its name -- each mapped to the URL of a listed file with that key.
C10_FallbackScanPopulatesStems ==
    \A j \in JobIds :
        (runner[j].listing # None /\ runner[j].output_files = <<>>) =>
            LET listing == runner[j].listing[1]
                mp3 == {listing[i] : i \in {k \in 1..Len(listing) : EndsWith(listing[k], MP3)}}
            IN  /\ runner[j].pc \in {"cleanup_temp", "complete", "done"}
                /\ j \in DOMAIN jobs =>
                      /\ jobs[j].status # "error"
                      /\ jobs[j].status = "complete" => jobs[j].stems # None
                /\ (j \in DOMAIN jobs /\ jobs[j].stems # None) =>
                      LET stems == jobs[j].stems[1]
                      IN  /\ DOMAIN stems = {C10_Key(f) : f \in mp3}
                          /\ \A k \in DOMAIN stems :
                                \E f \in mp3 : /\ C10_Key(f) = k
                                               /\ stems[k] = "/stems/" \o j \o "/" \o Join(f)

\* the result line was empty, the directory held Vocals.mp3, vocals2.mp3,
\* mix.mp3 and n.txt, and the job completed with stems from the scan
C10_Witness ==
    \E j \in DOMAIN jobs :
        /\ runner[j].listing # None
        /\ runner[j].output_files = <<>>
        /\ jobs[j].status = "complete"
        /\ jobs[j].stems # None
        /\ DOMAIN jobs[j].stems[1] = {"Vocals", "mix.mp3"}
        /\ jobs[j].stems[1]["mix.mp3"] = "/stems/j1/mix.mp3"
        /\ jobs[j].stems[1]["Vocals"] = "/stems/j1/vocals2.mp3"

\* C13: the runner applies its terminal update (complete or error) only when
\* the reader thread it started has reached the end of the stream and exited,
\* and once the runner has finished no step of the reader changes the
\* registry.
C13_TerminalUpdateAfterDrain ==
    [][\A j \in JobIds :
          /\ (RunnerComplete(j) \/ RunnerExceptUpdate(j))
                => reader[j].pc \in {"none", "done"}
          /\ (RunnerDone(j) /\ (ReaderLine(j) \/ ReaderReset(j))) => jobs' = jobs]_vars

\* C14: once a call of cancel for a job has returned 200, no worker process of
\* that job is running, unless it is one that cancel has signalled and that
\* is about to end.
C14_NoWorkerAfterCancel ==
    \A j \in JobIds :
        (returned_ok[j] # {} /\ http.pc = "idle")
            => ~(proc[j].state = "running" /\ proc[j].signals = <<>>)

\* the label C20 expects for a file name: that of the first of vocals, drums,
\* bass, guitar, piano contained in the lower-cased name, else Other
C20_Label(b) ==
    LET has(i) == Contains(Lower(b), stem_keywords[i][1])
    IN  IF \E i \in 1..5 : has(i)
        THEN stem_keywords[CHOOSE i \in 1..5 : has(i) /\ \A m \in 1..(i - 1) : ~has(m)][2]
        ELSE "Other"

\* C20: when a job has completed with stems built from the files of the
\* result line, every file listed there is the value of its label in stems.
C20_EveryListedFileAppears ==
    \A j \in DOMAIN jobs :
        ( /\ jobs[j].status = "complete"
          /\ jobs[j].stems # None
          /\ RunnerDone(j)
          /\ runner[j].listing = None
          /\ accepted[j] = {} )
            => \A i \in 1..Len(runner[j].output_files) :
                  LET b == Basename(runner[j].output_files[i])
                  IN  /\ C20_Label(b) \in DOMAIN jobs[j].stems[1]
                      /\ jobs[j].stems[1][C20_Label(b)] = "/stems/" \o j \o "/" \o Join(b)

\* C11: every submitted job comes to a point where its runner has finished and
\* its status is complete, error or cancelled; whenever the runner has
\* finished the status is one of these three; and when no cancel request was
\* accepted, a failed launch and a non-zero exit code both leave status error.
C11_EveryJobReachesTerminal ==
    /\ \A j \in JobIds :
          (j \in DOMAIN jobs) ~> (RunnerDone(j) /\ j \in DOMAIN jobs
                                    /\ jobs[j].status \in Terminal)
    /\ [](\A j \in JobIds :
            (RunnerDone(j) /\ j \in DOMAIN jobs) =>
                /\ jobs[j].status \in Terminal
                /\ ( /\ accepted[j] = {}
                     /\ \/ runner[j].exc = POPEN_ERROR
                        \/ proc[j].returncode \notin {None, Some(0)} )
                      => jobs[j].status = "error")

\* the worker could not be launched and the job has ended in error
C11_Witness ==
    \E j \in DOMAIN jobs :
        /\ runner[j].exc = POPEN_ERROR
        /\ proc[j].state = "none"
        /\ RunnerDone(j)
        /\ jobs[j].status = "error"
        /\ jobs[j].message = POPEN_ERROR

\* C17: a cycle of the reaper removes the records whose status is complete or
\* error and whose started_at lies more than the retention window back, and
\* leaves every other record as it is.
C17_ReaperCycleFrame ==
    [][ReaperCycle =>
          /\ DOMAIN jobs' \subseteq DOMAIN jobs
          /\ \A j \in DOMAIN jobs :
                IF /\ jobs[j].status \in {"complete", "error"}
                   /\ now - jobs[j].started_at > RETENTION_SECONDS
                THEN j \notin DOMAIN jobs'
                ELSE j \in DOMAIN jobs' /\ jobs'[j] = jobs[j]]_vars

\* a cycle has just ended and the record of a finished job is gone
C17_Witness ==
    \E j \in JobIds :
        /\ RunnerDone(j)
        /\ j \notin DOMAIN jobs
        /\ reaper = "sleep"
        /\ now - runner[j].start_time > RETENTION_SECONDS

\* C18: a record whose status is complete, error or cancelled, and whose
\* retention window ends before the last tick of the clock, is removed from
\* the registry at some later time.
C18_TerminalRecordsRemoved ==
    \A j \in JobIds :
        [](( /\ j \in DOMAIN jobs
             /\ jobs[j].status \in Terminal
             /\ jobs[j].started_at + RETENTION_SECONDS < MaxTime )
                => <>(j \notin DOMAIN jobs))

\* C19: the reaper thread is always in a cycle or asleep; a cycle that raises
\* takes it to the fallback sleep of line 442; and from either sleep it
\* starts a further cycle.
C19_ReaperNeverStops ==
    /\ [](reaper \in {"cycle", "sleep", "fallback"})
    /\ [][ReaperCycleFails => reaper' = "fallback"]_vars
    /\ (reaper = "fallback") ~> (reaper = "cycle")
    /\ (reaper = "sleep") ~> (reaper = "cycle")

\* a cycle has raised with an expired directory still in place, and the
\* thread is in its fallback sleep
C19_Witness ==
    /\ reaper = "fallback"
    /\ \E d \in DOMAIN out_dirs : DirExpired(out_dirs[d], now)

\* C15: whether or not a deletion of a directory fails, a job that no cancel
\* request was accepted for has status complete or error once its runner
\* thread has ended, and status complete when the worker exited with code 0
\* and nothing but the deletion of a directory failed.
C15_CleanupFailureIsSwallowed ==
    \A j \in JobIds :
        (runner[j].pc \in {"done", "crashed"} /\ accepted[j] = {} /\ j \in DOMAIN jobs)
            => /\ jobs[j].status \in {"complete", "error"}
               /\ (proc[j].returncode = Some(0) /\ runner[j].exc \in {"", RMTREE_ERROR})
                    => jobs[j].status = "complete"

\* the progress tokens of a line: first and last position of every maximal
\* run of digits that is followed by %|
C12_Tokens(line) ==
    {t \in (1..Len(line)) \X (1..Len(line)) :
        /\ t[1] <= t[2]
        /\ \A m \in t[1]..t[2] : line[m] \in Digits
        /\ (t[1] = 1 \/ line[t[1] - 1] \notin Digits)
        /\ t[2] + 2 <= Len(line)
        /\ line[t[2] + 1] = "%"
        /\ line[t[2] + 2] = "|"}

\* the number a token stands for
C12_Number(line, t) == ToInt(SubSeq(line, t[1], t[2]))

\* C12 as stated: when the reader hands a line to the parser, the progress of
\* the job becomes N for every token N%| of the line with 0 <= N <= 100, and a
\* line without a token leaves the registry as it is.
C12_ParserYieldsN ==
    [][\A j \in JobIds :
          ReaderLine(j) =>
              LET line == Head(proc[j].stderr)
              IN  /\ \A t \in C12_Tokens(line) :
                        C12_Number(line, t) \in 0..100
                            => jobs'[j].progress = C12_Number(line, t)
                  /\ C12_Tokens(line) = {} => jobs' = jobs]_vars

\* C12, amended: when the reader hands a line to the parser, the progress of
\* the job becomes N if the first token of the line is N%| with
\* 0 <= N <= 100, whatever text surrounds it, and a line without a token
\* leaves the registry as it is.
C12_ParserYieldsFirstToken ==
    [][\A j \in JobIds :
          ReaderLine(j) =>
              LET line == Head(proc[j].stderr)
                  tokens == C12_Tokens(line)
              IN  IF tokens = {} THEN jobs' = jobs
                  ELSE LET first == CHOOSE t \in tokens : \A u \in tokens : t[1] <= u[1]
                           n == C12_Number(line, first)
                       IN  n \in 0..100 => jobs'[j].progress = n]_vars

\* the reader has read its lines, the last one with text around its token,
\* and the progress of the job is 7
C12_Witness ==
    \E j \in DOMAIN jobs :
        /\ proc[j].written > 0
        /\ proc[j].stderr = <<>>
        /\ jobs[j].progress = 7
        /\ jobs[j].message = "Downloading model... 7%"
        /\ jobs[j].eta_seconds = Some(60)

C23_ReaperSparesRunningJobs ==
    [][(ReaperCycle \/ ReaperCycleFails) =>
          \A j \in DOMAIN out_dirs :
              (j \in DOMAIN jobs /\ jobs[j].status \in {"uploading", "processing"})
                  => j \in DOMAIN out_dirs']_vars

\* the line reports 100%: the progress the parser reads from it, which is the
\* number of its first token, is 100
C21_Reports100(line) ==
    LET tokens == C12_Tokens(line)
    IN  /\ tokens # {}
        /\ C12_Number(line, CHOOSE t \in tokens : \A u \in tokens : t[1] <= u[1]) = 100

\* C21: the reader's downloading flag is set by a line containing
\* "Downloading" and is cleared only by a line that reports 100% while the
\* flag is set; the update of a progress line is labelled "Downloading model..."
\* exactly when the flag is set and "Separating stems..." otherwise; after the
\* clearing line the reader's last update for it sets progress 0, eta_seconds
\* None and the model-loading message.
C21_DownloadingFlag ==
    [][\A j \in JobIds :
          /\ (ReaderLine(j) /\ Head(proc[j].stderr) # <<>>) =>
                LET line == Head(proc[j].stderr)
                    flag == reader[j].is_downloading \/ Contains(line, DOWNLOADING)
                    tokens == C12_Tokens(line)
                    cleared == reader'[j].pc = "reset"
                IN  /\ cleared => (flag /\ C21_Reports100(line))
                    /\ reader'[j].is_downloading = (flag /\ ~cleared)
                    /\ tokens # {} =>
                          LET n == C12_Number(line,
                                     CHOOSE t \in tokens : \A u \in tokens : t[1] <= u[1])
                          IN  jobs'[j].message =
                                  (IF flag THEN "Downloading model... "
                                           ELSE "Separating stems... ")
                                      \o ToString(n) \o "%"
          /\ ReaderReset(j) =>
                /\ jobs'[j].progress = 0
                /\ jobs'[j].eta_seconds = None
                /\ jobs'[j].message = "Loading AI model into memory (takes 1-2 mins)..."
                /\ ~reader'[j].is_downloading]_vars

-----------------------------------------------------------------------------
(* The two locks.  Each function that touches the registry or the table of *)
(* tracked processes is the sequence of its lock operations and of its     *)
(* accesses to the two tables, in program order; a thread goes through the *)
(* sequence of the function it is running, one operation per step.         *)

Acquire(lock) == [op |-> "acquire", on |-> lock]
Release(lock) == [op |-> "release", on |-> lock]
Read(table) == [op |-> "read", on |-> table]
Write(table) == [op |-> "write", on |-> table]

\* lines 187-190
LocksOfUpdateJob == <<Acquire("jobs_lock"), Read("jobs"), Write("jobs"), Release("jobs_lock")>>

\* lines 193-195
LocksOfGetJob == <<Acquire("jobs_lock"), Read("jobs"), Release("jobs_lock")>>

\* lines 265-266
LocksOfTrack ==
    <<Acquire("processes_lock"), Write("active_processes"), Release("processes_lock")>>

\* lines 312-314
LocksOfUntrack ==
    <<Acquire("processes_lock"), Read("active_processes"), Write("active_processes"),
      Release("processes_lock")>>

\* run_separation: the paths through lines 233, 265, 312, 317, 383 and the
\* except clause (402, 404)
LocksOfRunSeparation ==
    LET tracked == LocksOfUpdateJob \o LocksOfTrack \o LocksOfUntrack \o LocksOfGetJob
    IN  { tracked,                                          \* cancelled: return at 322
          tracked \o LocksOfUpdateJob,                      \* complete: 383
          tracked \o LocksOfGetJob \o LocksOfUpdateJob,     \* raise at 330, then 402, 404
          tracked \o LocksOfGetJob,                         \* raise, cancelled at 403
          LocksOfUpdateJob \o LocksOfGetJob \o LocksOfUpdateJob }  \* Popen raises

\* read_stderr, one line: parse_tqdm_line's update (219), then the reset (292)
LocksOfReadStderr ==
    { LocksOfUpdateJob, LocksOfUpdateJob \o LocksOfUpdateJob }

\* cancel_job with the status update inside the section of processes_lock
LocksOfCancelJob_Mutant ==
    { LocksOfGetJob,
      LocksOfGetJob \o <<Acquire("processes_lock")>> \o LocksOfUpdateJob
          \o <<Read("active_processes"), Release("processes_lock")>> }

\* cancel_job: 565 alone (404 or 400), or 565, 575 and the section 577-588
\* with the process not tracked or tracked
LocksOfCancelJob ==
    { LocksOfGetJob,
      LocksOfGetJob \o LocksOfUpdateJob
          \o <<Acquire("processes_lock"), Read("active_processes"),
               Release("processes_lock")>>,
      LocksOfGetJob \o LocksOfUpdateJob
          \o <<Acquire("processes_lock"), Read("active_processes"),
               Write("active_processes"), Release("processes_lock")>> }

\* get_status: line 542
LocksOfGetStatus == { LocksOfGetJob }

\* list_jobs: lines 551-558
LocksOfListJobs == { <<Acquire("jobs_lock"), Read("jobs"), Release("jobs_lock")>> }

\* separate_audio: lines 511-521
LocksOfSeparateAudio == { <<Acquire("jobs_lock"), Write("jobs"), Release("jobs_lock")>> }

\* background_cleanup_thread, one cycle: lines 432-438, with or without a
\* record to delete
LocksOfCleanupThread ==
    { <<Acquire("jobs_lock"), Read("jobs"), Release("jobs_lock")>>,
      <<Acquire("jobs_lock"), Read("jobs"), Write("jobs"), Release("jobs_lock")>> }

\* what each thread can run
LocksOf(t) ==
    CASE t = "runner" -> LocksOfRunSeparation
      [] t = "reader" -> LocksOfReadStderr
      [] t = "event_loop" -> LocksOfCancelJob \cup LocksOfGetStatus \cup LocksOfListJobs
                                \cup LocksOfSeparateAudio
      [] t = "reaper" -> LocksOfCleanupThread

\* the thread is between two functions
LockIdle(t) == lockstep[t].at > Len(lockstep[t].ops)

\* the next operation of the thread
LockOp(t) == lockstep[t].ops[lockstep[t].at]

Holder(lock) == IF lock = "jobs_lock" THEN jobs_lock ELSE processes_lock

\* the thread enters a function
LockBegin(t) ==
    /\ LockIdle(t)
    /\ \E ops \in LocksOf(t) : lockstep' = [lockstep EXCEPT ![t] = [ops |-> ops, at |-> 1]]
    /\ UNCHANGED <<now, jobs, active_processes, processes_lock, temp_dirs, out_dirs,
                   proc, runner, reader, http, last_cancel, accepted, returned_ok,
                   reaper, jobs_lock>>

\* `with lock:` is entered; threading.Lock is not reentrant, the thread
\* waits until the lock is free
LockAcquire(t) ==
    /\ ~LockIdle(t)
    /\ LockOp(t).op = "acquire"
    /\ Holder(LockOp(t).on) = "free"
    /\ IF LockOp(t).on = "jobs_lock"
       THEN jobs_lock' = t /\ UNCHANGED processes_lock
       ELSE processes_lock' = t /\ UNCHANGED jobs_lock
    /\ lockstep' = [lockstep EXCEPT ![t].at = @ + 1]
    /\ UNCHANGED <<now, jobs, active_processes, temp_dirs, out_dirs, proc, runner,
                   reader, http, last_cancel, accepted, returned_ok, reaper>>

\* the `with` block is left
LockRelease(t) ==
    /\ ~LockIdle(t)
    /\ LockOp(t).op = "release"
    /\ IF LockOp(t).on = "jobs_lock"
       THEN jobs_lock' = "free" /\ UNCHANGED processes_lock
       ELSE processes_lock' = "free" /\ UNCHANGED jobs_lock
    /\ lockstep' = [lockstep EXCEPT ![t].at = @ + 1]
    /\ UNCHANGED <<now, jobs, active_processes, temp_dirs, out_dirs, proc, runner,
                   reader, http, last_cancel, accepted, returned_ok, reaper>>

\* a read or a write of one of the two tables
LockAccess(t) ==
    /\ ~LockIdle(t)
    /\ LockOp(t).op \in {"read", "write"}
    /\ lockstep' = [lockstep EXCEPT ![t].at = @ + 1]
    /\ UNCHANGED <<now, jobs, active_processes, processes_lock, temp_dirs, out_dirs,
                   proc, runner, reader, http, last_cancel, accepted, returned_ok,
                   reaper, jobs_lock>>

NextLocks ==
    \E t \in Threads : LockBegin(t) \/ LockAcquire(t) \/ LockRelease(t) \/ LockAccess(t)

SpecLocks == Init /\ [][NextLocks]_vars

\* the thread waits for a lock that is taken
LockBlocked(t) ==
    /\ ~LockIdle(t)
    /\ LockOp(t).op = "acquire"
    /\ Holder(LockOp(t).on) # "free"

\* C22: no thread acquires jobs_lock or processes_lock while it holds the
\* other (or the same) lock, every read or write of the registry is made by
\* a thread that holds jobs_lock, and no thread waits for a lock whose holder
\* is itself waiting, so that no set of threads is deadlocked.
C22_LockDiscipline ==
    \A t \in Threads :
        /\ ~(jobs_lock = t /\ processes_lock = t)
        /\ (~LockIdle(t) /\ LockOp(t).op = "acquire")
              => (jobs_lock # t /\ processes_lock # t)
        /\ (~LockIdle(t) /\ LockOp(t).op \in {"read", "write"} /\ LockOp(t).on = "jobs")
              => jobs_lock = t
        /\ LockBlocked(t) => ~LockBlocked(Holder(LockOp(t).on))

\* the cancel handler holds processes_lock, the reader holds jobs_lock, and
\* the runner and the reaper each wait for one of the two
C22_Witness ==
    /\ processes_lock = "event_loop"
    /\ jobs_lock = "reader"
    /\ LockBlocked("runner") /\ LockOp("runner").on = "processes_lock"
    /\ LockBlocked("reaper")

====
